---- MODULE Spec2Model ----
(***************************************************************************)
(* A model of tg2kb: the Telegram fetch workflow (src/tg_client.py) and    *)
(* the annotation workflow (src/process_to_kb.py).                         *)
(*                                                                         *)
(* Strings are sequences of one-character strings, Python lists are        *)
(* sequences (Python index i is TLA+ index i + 1), dicts are records ({}    *)
(* is the record with no field, <<>>), and None, where a string may stand, *)
(* is the value None, which is no string.                                  *)
(***************************************************************************)
EXTENDS Integers, Sequences, FiniteSets, TLC

VARIABLES
    harness,      \* which entry point this run executes
    pc,           \* position of the run in the code
    raised,       \* the exception that escaped the entry point, or "none"
    \* ---- interactive selection (select_channel, select_file)
    selector,     \* "channel" or "file": which of the two selectors runs
    items,        \* the list handed to the selector
    typed,        \* history: the lines the selector has read so far
    selected,     \* the selector's return value
    \* ---- source connector (get_user_channels, download_messages)
    dialogs,      \* what client.iter_dialogs() has to yield, in order
    conversation, \* the conversation's messages, newest first
    limit,        \* download_messages' limit argument
    cursor,       \* how many items the running iteration has yielded
    channels,     \* get_user_channels' local list
    messages,     \* download_messages' local list
    failed,       \* history: a remote call of the connector function raised
    ret,          \* what the connector function returned
    \* ---- dump writer and reader (save_messages, load_messages)
    dumpInput,    \* the message list the dump harness hands to save_messages
    fs,           \* the file at the dump path
    saveOutcome,  \* history: how far save_messages got
    loaded,       \* what load_messages returned
    \* ---- fetch workflow (tg_client.main, connect_telethon)
    apiId,        \* TELEGRAM_API_ID in the environment, None when unset
    apiHash,      \* TELEGRAM_API_HASH in the environment, None when unset
    client,       \* main's local client: "None" or "client"
    connOpen,     \* the connection to Telegram is open
    connections,  \* history: how many times client.connect() succeeded
    disconnects,  \* history: how many times client.disconnect() was called
    authorized,   \* the session is authorized
    prompts,      \* history: how many input() prompts connect_telethon issued
    reported,     \* history: main printed its final success lines
    \* ---- annotation workflow (process_to_kb.main)
    openaiKey,    \* OPENAI_API_KEY in the environment, None when unset
    idx,          \* how many of the loaded messages the loop has taken
    processed,    \* main's local list of results
    pending,      \* completion calls issued and not yet returned
    calls,        \* history: how many completion calls were issued
    replies,      \* history: what the service did for each call, in order
    outFile       \* the result file

selVars == <<selector, items, typed, selected>>
connVars == <<dialogs, conversation, limit, cursor, channels, messages, failed, ret>>
dumpVars == <<dumpInput, fs, saveOutcome, loaded>>
fetchVars == <<apiId, apiHash, client, connOpen, connections, disconnects,
               authorized, prompts, reported>>
annVars == <<openaiKey, idx, processed, pending, calls, replies, outFile>>
vars == <<harness, pc, raised, selVars, connVars, dumpVars, fetchVars, annVars>>

None == <<"None">>
NotYet == [unassigned |-> TRUE]   \* a local that has not been assigned
EmptyDict == <<>>                 \* the {} select_channel returns for an empty list

(***************************************************************************)
(* Bounds of the model.                                                    *)
(***************************************************************************)
MaxItems == 3              \* longest list handed to a selector
MaxInputs == 3             \* most lines the selector harness reads
MaxDialogs == 3            \* most dialogs iter_dialogs yields
MaxConv == 3               \* most messages in a conversation
MaxLimit == 4              \* largest limit the download harness passes
MaxText == 2               \* longest text of a message handed to the dump writer
MaxDumpMsgs == 2           \* most messages handed to the dump writer
MaxAnnMsgs == 2            \* most messages in a dump the annotation run loads

(***************************************************************************)
(* Strings.                                                                *)
(***************************************************************************)
SP == " "
TAB == "\t"
NL == "\n"
QUOTE == "\""
BSL == "\\"

IsSpace(c) == c \in {SP, TAB, NL}

RECURSIVE LStrip(_)
LStrip(s) ==
    IF s # <<>> /\ IsSpace(Head(s)) THEN LStrip(Tail(s)) ELSE s

RECURSIVE RStrip(_)
RStrip(s) ==
    IF s # <<>> /\ IsSpace(s[Len(s)]) THEN RStrip(SubSeq(s, 1, Len(s) - 1)) ELSE s

\* str.strip(): leading and trailing whitespace removed.
Strip(s) == RStrip(LStrip(s))

Digits == {"0", "1", "2", "3", "4", "5", "6", "7", "8", "9"}

DigitVal(c) ==
    CASE c = "0" -> 0 [] c = "1" -> 1 [] c = "2" -> 2 [] c = "3" -> 3
      [] c = "4" -> 4 [] c = "5" -> 5 [] c = "6" -> 6 [] c = "7" -> 7
      [] c = "8" -> 8 [] c = "9" -> 9

RECURSIVE DigitsValue(_, _)
DigitsValue(s, acc) ==
    IF s = <<>> THEN acc
    ELSE IF Head(s) = "_" THEN DigitsValue(Tail(s), acc)
    ELSE DigitsValue(Tail(s), 10 * acc + DigitVal(Head(s)))

\* The digit part of an int() literal: digits, single underscores between them.
IsDigitPart(s) ==
    /\ s # <<>>
    /\ \A i \in 1..Len(s) : s[i] \in Digits \cup {"_"}
    /\ s[1] # "_" /\ s[Len(s)] # "_"
    /\ \A i \in 1..(Len(s) - 1) : ~(s[i] = "_" /\ s[i + 1] = "_")

\* Whether int(s) accepts the string: surrounding whitespace stripped, an
\* optional sign, then the digit part. Anything else raises ValueError.
IsIntLiteral(s) ==
    LET t == Strip(s)
        signed == t # <<>> /\ t[1] \in {"+", "-"}
    IN  IsDigitPart(IF signed THEN Tail(t) ELSE t)

\* int(s) of a string that int() accepts.
ParseInt(s) ==
    LET t == Strip(s)
        signed == t # <<>> /\ t[1] \in {"+", "-"}
        body == IF signed THEN Tail(t) ELSE t
    IN  IF signed /\ t[1] = "-" THEN 0 - DigitsValue(body, 0)
        ELSE DigitsValue(body, 0)

\* Python's list[i] for 0 <= i < len(list).
PyIndex(list, i) == list[i + 1]

\* download_messages' default limit.
DefaultLimit == 50

Min(a, b) == IF a < b THEN a ELSE b

(***************************************************************************)
(* The lines an operator may type at a selection prompt.                   *)
(***************************************************************************)
InputPool ==
    { <<"a", "b", "c">>, <<"9", "9">>, <<"2">>, <<"1">>, <<"3">>, <<"4">>,
      <<"0">>, <<"-", "1">>, <<SP, "2", SP>>, <<>>, <<"2", ".", "0">>,
      <<"+", "3">> }

ItemAt(i) == [item |-> i]
MakeItems(n) == [i \in 1..n |-> ItemAt(i)]

(***************************************************************************)
(* select_channel (tg_client.py) and select_file (process_to_kb.py).       *)
(***************************************************************************)
\* Where the caller goes on when the selector returns.
SelReturnPc ==
    CASE harness = "fetch" -> "main_selected"
      [] harness = "annotate" -> "load"
      [] OTHER -> "done"

\* Entry of the selector: select_channel returns {} for an empty list without
\* prompting; otherwise the menu is printed and the input loop starts.
SelectEnter ==
    /\ pc = "sel_enter"
    /\ IF selector = "channel" /\ items = <<>>
       THEN /\ selected' = EmptyDict
            /\ pc' = SelReturnPc
       ELSE /\ pc' = "sel_input"
            /\ UNCHANGED selected
    /\ UNCHANGED <<harness, raised, selector, items, typed, connVars, dumpVars, fetchVars, annVars>>

ChannelAcceptsShort(list, line) ==
    /\ IsIntLiteral(line)
    /\ 0 <= ParseInt(line) - 1
    /\ ParseInt(line) - 1 < Len(list) - 1

\* select_channel's test of one line: index = int(choice) - 1, accepted when
\* 0 <= index < len(channels).
ChannelAccepts(list, line) ==
    /\ IsIntLiteral(line)
    /\ 0 <= ParseInt(line) - 1
    /\ ParseInt(line) - 1 < Len(list)

ChannelPick(list, line) == PyIndex(list, ParseInt(line) - 1)

\* select_file's test of one line: choice = int(input), accepted when
\* 1 <= choice <= len(files).
FileAccepts(list, line) ==
    /\ IsIntLiteral(line)
    /\ 1 <= ParseInt(line)
    /\ ParseInt(line) <= Len(list)

FilePickFirst(list, line) == PyIndex(list, 0)

FilePick(list, line) == PyIndex(list, ParseInt(line) - 1)

Accepts(list, line) ==
    IF selector = "channel" THEN ChannelAccepts(list, line) ELSE FileAccepts(list, line)

Pick(list, line) ==
    IF selector = "channel" THEN ChannelPick(list, line) ELSE FilePick(list, line)

\* One pass of the while True loop: a line is read; an accepted line returns
\* the chosen item, any other line prints a message and loops.
SelectInput ==
    /\ pc = "sel_input"
    /\ harness = "select" => Len(typed) < MaxInputs
    /\ \E line \in InputPool :
          /\ typed' = IF harness = "select" THEN Append(typed, line) ELSE typed
          /\ IF Accepts(items, line)
             THEN /\ selected' = Pick(items, line)
                  /\ pc' = SelReturnPc
             ELSE /\ pc' = "sel_input"
                  /\ UNCHANGED selected
    /\ UNCHANGED <<harness, raised, selector, items, connVars, dumpVars, fetchVars, annVars>>

(***************************************************************************)
(* The source: dialogs and messages as the Telegram client yields them.    *)
(***************************************************************************)
\* A dialog's entity: its class and its participants_count attribute
\* (Absent when the entity has no such attribute).
Absent == <<"Absent">>
Entities ==
    { [class |-> "Channel", participants_count |-> <<"5">>],
      [class |-> "Channel", participants_count |-> None],
      [class |-> "Chat", participants_count |-> Absent],
      [class |-> "User", participants_count |-> Absent] }

\* The i-th dialog of the account, with entity e.
Dialog(i, e) == [id |-> 100 + i, title |-> <<"t", i>>, entity |-> e]

DialogLists ==
    UNION { { [i \in 1..n |-> Dialog(i, f[i])] : f \in [1..n -> Entities] } :
            n \in 0..MaxDialogs }

\* What a source message carries besides its id and date: the text ('' and
\* None are both "no text") and the sender (None, or a user's first_name).
Bodies ==
    { [text |-> t, sender |-> sn] :
        t \in {None, <<>>, <<"h", "i">>}, sn \in {None, <<"A", "n", "n">>} }

\* The i-th newest of n messages: ids fall from newest to oldest.
SourceMessage(i, n, b) ==
    [id |-> n - i + 1, date |-> n - i + 1, sender |-> b.sender, text |-> b.text]

Conversations ==
    UNION { { [i \in 1..n |-> SourceMessage(i, n, f[i])] : f \in [1..n -> Bodies] } :
            n \in 0..MaxConv }

DigitChar(d) ==
    CASE d = 0 -> "0" [] d = 1 -> "1" [] d = 2 -> "2" [] d = 3 -> "3"
      [] d = 4 -> "4" [] d = 5 -> "5" [] d = 6 -> "6" [] d = 7 -> "7"
      [] d = 8 -> "8" [] d = 9 -> "9"

\* message.date.isoformat(), dates being the days of one month.
IsoFormat(day) ==
    <<"2", "0", "2", "4", "-", "0", "1", "-", DigitChar(day \div 10), DigitChar(day % 10)>>

\* Python truthiness of message.text: None and '' are false.
Truthy(text) == text # None /\ text # <<>>

(***************************************************************************)
(* get_user_channels.                                                      *)
(***************************************************************************)
\* Where the caller goes on when a connector function returns.
ConnReturnPc(fn) ==
    CASE harness = "fetch" /\ fn = "channels" -> "main_channels"
      [] harness = "fetch" /\ fn = "download" -> "main_messages"
      [] OTHER -> "done"

\* isinstance(entity, (Channel, Chat)) and not isinstance(entity, User)
IsChannelOrGroup(e) == e.class \in {"Channel", "Chat"} /\ e.class # "User"

\* The channel_info dict built for one dialog.
ChannelInfo(d) ==
    [id |-> d.id,
     title |-> d.title,
     type |-> IF d.entity.class = "Channel" THEN "channel" ELSE "group",
     participants_count |->
        IF d.entity.participants_count = Absent THEN None
        ELSE d.entity.participants_count]

ChannelsEnter ==
    /\ pc = "ch_enter"
    /\ channels' = <<>>
    /\ cursor' = 0
    /\ pc' = "ch_iter"
    /\ UNCHANGED <<harness, raised, selVars, dialogs, conversation, limit, messages, failed, ret, dumpVars, fetchVars, annVars>>

\* One pass of the async for: the next dialog is yielded and kept if it is a
\* channel or a group.
ChannelsNext ==
    /\ pc = "ch_iter"
    /\ cursor < Len(dialogs)
    /\ LET d == dialogs[cursor + 1]
       IN  channels' = IF IsChannelOrGroup(d.entity)
                       THEN Append(channels, ChannelInfo(d))
                       ELSE channels
    /\ cursor' = cursor + 1
    /\ UNCHANGED <<harness, pc, raised, selVars, dialogs, conversation, limit, messages, failed, ret, dumpVars, fetchVars, annVars>>

\* What get_user_channels returns from its except clause.
ChannelsOnError == <<>>

\* The remote call behind the iteration raises, at any point of it: the
\* except clause prints and returns [].
ChannelsFail ==
    /\ pc = "ch_iter"
    /\ failed' = TRUE
    /\ ret' = ChannelsOnError
    /\ pc' = ConnReturnPc("channels")
    /\ UNCHANGED <<harness, raised, selVars, dialogs, conversation, limit, cursor, channels, messages, dumpVars, fetchVars, annVars>>

\* The iteration is exhausted: the collected list is returned.
ChannelsReturn ==
    /\ pc = "ch_iter"
    /\ cursor = Len(dialogs)
    /\ ret' = channels
    /\ pc' = ConnReturnPc("channels")
    /\ UNCHANGED <<harness, raised, selVars, dialogs, conversation, limit, cursor, channels, messages, failed, dumpVars, fetchVars, annVars>>

(***************************************************************************)
(* download_messages.                                                      *)
(***************************************************************************)
\* How many messages client.iter_messages(channel_id, limit=lim) yields: the
\* newest lim messages of the conversation, with or without text.
YieldCount(conv, lim) == Min(lim, Len(conv))

KeepMessageNotNone(msg) == msg.text # None

\* if message.text:
KeepMessage(msg) == Truthy(msg.text)

MessageType == <<"m", "e", "s", "s", "a", "g", "e">>
Unknown == <<"U", "n", "k", "n", "o", "w", "n">>

\* The message_data dict built for one message.
MessageData(msg) ==
    [id |-> msg.id,
     type |-> MessageType,
     date |-> IsoFormat(msg.date),
     from |-> IF msg.sender # None THEN msg.sender ELSE Unknown,
     text |-> msg.text,
     media_type |-> None,
     media_url |-> None]

DownloadEnter ==
    /\ pc = "dl_enter"
    /\ messages' = <<>>
    /\ cursor' = 0
    /\ pc' = "dl_iter"
    /\ UNCHANGED <<harness, raised, selVars, dialogs, conversation, limit, channels, failed, ret, dumpVars, fetchVars, annVars>>

\* One pass of the async for: the next message is yielded and kept if it has
\* text.
DownloadNext ==
    /\ pc = "dl_iter"
    /\ cursor < YieldCount(conversation, limit)
    /\ LET msg == conversation[cursor + 1]
       IN  messages' = IF KeepMessage(msg)
                       THEN Append(messages, MessageData(msg))
                       ELSE messages
    /\ cursor' = cursor + 1
    /\ UNCHANGED <<harness, pc, raised, selVars, dialogs, conversation, limit, channels, failed, ret, dumpVars, fetchVars, annVars>>

DownloadOnErrorPartial == messages

\* What download_messages returns from its except clause.
DownloadOnError == <<>>

\* The remote call behind the iteration raises, at any point of it: the
\* except clause prints and returns [].
DownloadFail ==
    /\ pc = "dl_iter"
    /\ failed' = TRUE
    /\ ret' = DownloadOnError
    /\ pc' = ConnReturnPc("download")
    /\ UNCHANGED <<harness, raised, selVars, dialogs, conversation, limit, cursor, channels, messages, dumpVars, fetchVars, annVars>>

\* The iteration is exhausted: the collected list is returned.
DownloadReturn ==
    /\ pc = "dl_iter"
    /\ cursor = YieldCount(conversation, limit)
    /\ ret' = messages
    /\ pc' = ConnReturnPc("download")
    /\ UNCHANGED <<harness, raised, selVars, dialogs, conversation, limit, cursor, channels, messages, failed, dumpVars, fetchVars, annVars>>

(***************************************************************************)
(* JSON text, as json.dump(..., ensure_ascii=False) writes it and          *)
(* json.load reads it. A document is kept as its tree of keys; every       *)
(* number, string and null in it is kept as the characters written.        *)
(***************************************************************************)
JsonNull == <<"n", "u", "l", "l">>

EscapeCharKeepsBackslash(c) ==
    CASE c = QUOTE -> <<BSL, QUOTE>>
      [] c = NL -> <<BSL, "n">>
      [] c = TAB -> <<BSL, "t">>
      [] OTHER -> <<c>>

\* The characters json.dump writes for one character of a string.
EscapeChar(c) ==
    CASE c = QUOTE -> <<BSL, QUOTE>>
      [] c = BSL -> <<BSL, BSL>>
      [] c = NL -> <<BSL, "n">>
      [] c = TAB -> <<BSL, "t">>
      [] OTHER -> <<c>>

RECURSIVE Escape(_)
Escape(s) == IF s = <<>> THEN <<>> ELSE EscapeChar(Head(s)) \o Escape(Tail(s))

\* The character json.load reads for the escape sequence backslash c.
UnescapeChar(c) ==
    CASE c = "n" -> NL
      [] c = "t" -> TAB
      [] OTHER -> c

RECURSIVE Unescape(_)
Unescape(s) ==
    IF s = <<>> THEN <<>>
    ELSE IF Head(s) = BSL /\ Len(s) >= 2
         THEN <<UnescapeChar(s[2])>> \o Unescape(Tail(Tail(s)))
         ELSE <<Head(s)>> \o Unescape(Tail(s))

RECURSIVE IntToStr(_)
\* The decimal digits json.dump writes for an int n >= 0.
IntToStr(n) ==
    IF n < 10 THEN <<DigitChar(n)>>
    ELSE Append(IntToStr(n \div 10), DigitChar(n % 10))

JsonString(s) == <<QUOTE>> \o Escape(s) \o <<QUOTE>>

\* A str or None value as written.
JsonStrOrNull(v) == IF v = None THEN JsonNull ELSE JsonString(v)

\* A written string or null as read back.
ReadStrOrNull(j) ==
    IF j = JsonNull THEN None ELSE Unescape(SubSeq(j, 2, Len(j) - 1))

\* A written number as read back.
ReadInt(j) == DigitsValue(j, 0)

\* One message dict as written.
WriteMessage(msg) ==
    [id |-> IntToStr(msg.id),
     type |-> JsonStrOrNull(msg.type),
     date |-> JsonStrOrNull(msg.date),
     from |-> JsonStrOrNull(msg.from),
     text |-> JsonStrOrNull(msg.text),
     media_type |-> JsonStrOrNull(msg.media_type),
     media_url |-> JsonStrOrNull(msg.media_url)]

\* One written message dict as read back: the keys it has, the id a number,
\* every other value a string or null.
ReadMessage(j) ==
    [k \in DOMAIN j |-> IF k = "id" THEN ReadInt(j[k]) ELSE ReadStrOrNull(j[k])]

(***************************************************************************)
(* save_messages and load_messages.                                        *)
(***************************************************************************)
ExportName == <<"T", "e", "l", "e", "g", "r", "a", "m", " ", "C", "h", "a", "n", "n", "e", "l", " ", "E", "x", "p", "o", "r", "t">>
ExportDate == <<"2", "0", "2", "4", "-", "0", "1", "-", "0", "1", "T", "0", "0", ":", "0", "0", ":", "0", "0", "Z">>

ExportCountOffByOne(msgs) == Len(msgs) + 1

\* export_data['message_count']
ExportCount(msgs) == Len(msgs)

\* export_data, as json.dump writes it.
WriteExport(msgs) ==
    [name |-> JsonString(ExportName),
     type |-> JsonString(<<"c", "h", "a", "n", "n", "e", "l">>),
     export_date |-> JsonString(ExportDate),
     message_count |-> IntToStr(ExportCount(msgs)),
     messages |-> [i \in 1..Len(msgs) |-> WriteMessage(msgs[i])]]

\* The file at the dump path: absent, a complete JSON document, or the
\* beginning of one (a write that broke off).
NoFile == [kind |-> "absent"]
Truncated == [kind |-> "truncated"]
Document(json) == [kind |-> "document", json |-> json]

\* A dump an earlier run left at the path.
OldDump ==
    Document(WriteExport(<<[id |-> 1, type |-> MessageType, date |-> IsoFormat(1),
                            from |-> Unknown, text |-> <<"o", "l", "d">>,
                            media_type |-> None, media_url |-> None]>>))

\* The messages save_messages is called with.
SaveArgument == IF harness = "fetch" THEN ret ELSE dumpInput

SaveReturnPc == IF harness = "fetch" THEN "main_report" ELSE "load"

\* save_messages, whole: mkdir, building export_data, open(path, 'w') and
\* json.dump, inside try/except Exception. A failing mkdir or open leaves the
\* file as it was; a json.dump that breaks off leaves a truncated file; the
\* except clause prints and the function returns None in every case.
SaveMessages ==
    /\ pc = "save"
    /\ \E outcome \in {"mkdir_failed", "open_failed", "dump_failed", "written"} :
          /\ saveOutcome' = outcome
          /\ fs' = CASE outcome = "written" -> Document(WriteExport(SaveArgument))
                     [] outcome = "dump_failed" -> Truncated
                     [] OTHER -> fs
    /\ pc' = SaveReturnPc
    /\ UNCHANGED <<harness, raised, selVars, connVars, dumpInput, loaded, fetchVars, annVars>>

\* data.get('messages', []) of the parsed document.
GetMessages(json) ==
    IF "messages" \in DOMAIN json
    THEN [i \in 1..Len(json.messages) |-> ReadMessage(json.messages[i])]
    ELSE <<>>

LoadReturnPc == IF harness = "annotate" THEN "ann_loaded" ELSE "done"

\* load_messages, whole: open, json.load, data.get('messages', []). A missing
\* file and malformed JSON raise; nothing here catches them.
LoadMessages ==
    /\ pc = "load"
    /\ IF fs.kind = "document"
       THEN /\ loaded' = GetMessages(fs.json)
            /\ pc' = LoadReturnPc
            /\ UNCHANGED raised
       ELSE /\ raised' = IF fs.kind = "absent" THEN "FileNotFoundError"
                                               ELSE "JSONDecodeError"
            /\ pc' = "done"
            /\ UNCHANGED loaded
    /\ UNCHANGED <<harness, selVars, connVars, dumpInput, fs, saveOutcome, fetchVars, annVars>>

\* The characters a text handed to the dump writer is made of.
TextChars == {QUOTE, BSL}

TextsUpTo(n) == UNION { [1..k -> TextChars] : k \in 0..n }

\* The i-th of n message dicts, newest first, as download_messages builds it.
DumpMessage(i, n, b) ==
    [id |-> 8 + n - i, type |-> MessageType, date |-> IsoFormat(n - i + 1),
     from |-> b.from, text |-> b.text, media_type |-> None, media_url |-> None]

DumpBodies ==
    { [text |-> t, from |-> Unknown] : t \in TextsUpTo(MaxText) }
    \cup { [text |-> <<BSL, "n">>, from |-> Unknown],
           [text |-> <<"n">>, from |-> None],
           [text |-> <<NL, TAB>>, from |-> <<QUOTE>>] }

DumpInputs ==
    UNION { { [i \in 1..n |-> DumpMessage(i, n, f[i])] : f \in [1..n -> DumpBodies] } :
            n \in 0..MaxDumpMsgs }

(***************************************************************************)
(* The fetch workflow: tg_client.main and connect_telethon.                *)
(***************************************************************************)
CredentialsMissingIdOnly(id, hash) == ~Truthy(id)

\* if not api_id or not api_hash: raise ValueError
CredentialsMissing(id, hash) == ~Truthy(id) \/ ~Truthy(hash)

\* main up to the call of connect_telethon: get_telegram_credentials raises
\* ValueError when a credential is unset or empty; main's except clause
\* prints it and the finally clause runs.
MainStart ==
    /\ pc = "main_start"
    /\ pc' = IF CredentialsMissing(apiId, apiHash) THEN "main_finally" ELSE "ct_new"
    /\ UNCHANGED <<harness, raised, selVars, connVars, dumpVars, fetchVars, annVars>>

\* connect_telethon before its try: TelegramClient(session_name, int(api_id),
\* api_hash). int() of a non-numeric id raises ValueError out of
\* connect_telethon; main's except clause prints it.
ConnectNew ==
    /\ pc = "ct_new"
    /\ pc' = IF IsIntLiteral(apiId) THEN "ct_connect" ELSE "main_finally"
    /\ UNCHANGED <<harness, raised, selVars, connVars, dumpVars, fetchVars, annVars>>

\* What main does with connect_telethon's return value: if not client: return
\* (into the finally clause), else go on to get_user_channels.
ConnectReturns(c) ==
    /\ client' = c
    /\ pc' = IF c = "None" THEN "main_finally" ELSE "ch_enter"

ConnectOnErrorKeepsClient == "client"

\* What connect_telethon returns from its except clauses.
ConnectOnError == "None"

\* await client.connect()
ConnectOpen ==
    /\ pc = "ct_connect"
    /\ \/ /\ connOpen' = TRUE
          /\ connections' = connections + 1
          /\ pc' = "ct_is_authorized"
          /\ UNCHANGED client
       \/ /\ ConnectReturns(ConnectOnError)
          /\ UNCHANGED <<connOpen, connections>>
    /\ UNCHANGED <<harness, raised, selVars, connVars, dumpVars, apiId, apiHash,
                   disconnects, authorized, prompts, reported, annVars>>

\* await client.is_user_authorized(): a cached authorization returns the
\* client at once; otherwise the first-time login starts; a failure of the
\* call returns None.
ConnectCheckAuthorized ==
    /\ pc = "ct_is_authorized"
    /\ \/ /\ authorized' = TRUE
          /\ ConnectReturns("client")
       \/ /\ pc' = "ct_send_code"
          /\ UNCHANGED <<authorized, client>>
       \/ /\ ConnectReturns(ConnectOnError)
          /\ UNCHANGED authorized
    /\ UNCHANGED <<harness, raised, selVars, connVars, dumpVars, apiId, apiHash,
                   connOpen, connections, disconnects, prompts, reported, annVars>>

\* phone = input(...); await client.send_code_request(phone)
ConnectSendCode ==
    /\ pc = "ct_send_code"
    /\ prompts' = prompts + 1
    /\ \/ /\ pc' = "ct_sign_in"
          /\ UNCHANGED client
       \/ ConnectReturns(ConnectOnError)
    /\ UNCHANGED <<harness, raised, selVars, connVars, dumpVars, apiId, apiHash,
                   connOpen, connections, disconnects, authorized, reported, annVars>>

\* code = input(...); await client.sign_in(phone, code): success,
\* PhoneCodeInvalidError (return None), SessionPasswordNeededError (ask for
\* the password), or any other exception (the outer except returns None).
ConnectSignIn ==
    /\ pc = "ct_sign_in"
    /\ prompts' = prompts + 1
    /\ \/ /\ authorized' = TRUE
          /\ ConnectReturns("client")
       \/ /\ ConnectReturns(ConnectOnError)
          /\ UNCHANGED authorized
       \/ /\ pc' = "ct_password"
          /\ UNCHANGED <<authorized, client>>
    /\ UNCHANGED <<harness, raised, selVars, connVars, dumpVars, apiId, apiHash,
                   connOpen, connections, disconnects, reported, annVars>>

\* password = input(...); await client.sign_in(password=password): success,
\* or an exception that the outer except turns into None.
ConnectPassword ==
    /\ pc = "ct_password"
    /\ prompts' = prompts + 1
    /\ \/ /\ authorized' = TRUE
          /\ ConnectReturns("client")
       \/ /\ ConnectReturns(ConnectOnError)
          /\ UNCHANGED authorized
    /\ UNCHANGED <<harness, raised, selVars, connVars, dumpVars, apiId, apiHash,
                   connOpen, connections, disconnects, reported, annVars>>

\* channels = await get_user_channels(client) has returned: an empty list
\* ends the run, otherwise select_channel(channels) is called.
MainChannels ==
    /\ pc = "main_channels"
    /\ IF ret = <<>>
       THEN /\ pc' = "main_finally"
            /\ UNCHANGED <<selector, items>>
       ELSE /\ pc' = "sel_enter"
            /\ selector' = "channel"
            /\ items' = ret
    /\ UNCHANGED <<harness, raised, typed, selected, connVars, dumpVars, fetchVars, annVars>>

\* selected_channel = select_channel(channels) has returned: {} ends the run,
\* otherwise download_messages(client, selected_channel['id']) is called.
MainSelected ==
    /\ pc = "main_selected"
    /\ pc' = IF selected = EmptyDict THEN "main_finally" ELSE "dl_enter"
    /\ UNCHANGED <<harness, raised, selVars, connVars, dumpVars, fetchVars, annVars>>

NothingDownloadedNever(msgs) == FALSE

\* if not messages: print and return
NothingDownloaded(msgs) == msgs = <<>>

\* messages = await download_messages(...) has returned: an empty list ends
\* the run, otherwise save_messages(messages, output_path) is called.
MainMessages ==
    /\ pc = "main_messages"
    /\ pc' = IF NothingDownloaded(ret) THEN "main_finally" ELSE "save"
    /\ UNCHANGED <<harness, raised, selVars, connVars, dumpVars, fetchVars, annVars>>

\* The two print calls after save_messages.
MainReport ==
    /\ pc = "main_report"
    /\ reported' = TRUE
    /\ pc' = "main_finally"
    /\ UNCHANGED <<harness, raised, selVars, connVars, dumpVars, apiId, apiHash,
                   client, connOpen, connections, disconnects, authorized, prompts, annVars>>

\* if client is not None:
MustDisconnect(c) == c # "None"

\* The finally clause: client.disconnect() when main's client is not None;
\* an exception of disconnect() is passed over. main returns.
MainFinally ==
    /\ pc = "main_finally"
    /\ IF MustDisconnect(client)
       THEN /\ disconnects' = disconnects + 1
            /\ \/ connOpen' = FALSE
               \/ UNCHANGED connOpen
       ELSE UNCHANGED <<disconnects, connOpen>>
    /\ pc' = "done"
    /\ UNCHANGED <<harness, raised, selVars, connVars, dumpVars, apiId, apiHash,
                   client, connections, authorized, prompts, reported, annVars>>

(***************************************************************************)
(* The annotation workflow: process_to_kb.main and                         *)
(* process_message_with_openai.                                            *)
(***************************************************************************)
\* msg.get('text', '')
GetText(msg) == IF "text" \in DOMAIN msg THEN msg.text ELSE <<>>

\* What the completion service may do for one call: answer with a text,
\* answer with no content (content is None, so .strip() raises inside the
\* try), or fail with an exception.
Skip == <<"S", "K", "I", "P">>
Replies ==
    { [kind |-> "content", text |-> <<"#", "z">>],
      [kind |-> "content", text |-> <<NL, "#", SP, "z", SP, NL>>],
      [kind |-> "content", text |-> Skip],
      [kind |-> "content", text |-> <<SP>> \o Skip \o <<NL>>],
      [kind |-> "content", text |-> <<SP>>],
      [kind |-> "raise", text |-> <<"q", "u", "o", "t", "a">>],
      [kind |-> "raise", text |-> <<"n", "o", " ", "s", "t", "r", "i", "p">>] }

ErrorMarker == <<"[", "O", "p", "e", "n", "A", "I", " ", "e", "r", "r", "o", "r", ":">>

ErrorSummaryBare(e) == e \o <<"]">>

\* f"[OpenAI error: {e}]"
ErrorSummary(e) == ErrorMarker \o <<SP>> \o e \o <<"]">>

\* response.choices[0].message.content.strip()
ContentSummary(text) == Strip(text)

\* What process_message_with_openai returns for a reply of the service.
Summary(reply) ==
    IF reply.kind = "content" THEN ContentSummary(reply.text)
    ELSE ErrorSummary(reply.text)

SkipsMessageIfNoKey(msg) == "text" \notin DOMAIN msg

\* if not text: continue
SkipsMessage(msg) == ~Truthy(GetText(msg))

\* main up to select_file: no dump in the examples folder ends the run.
AnnStart ==
    /\ pc = "ann_start"
    /\ IF items = <<>> THEN pc' = "done" ELSE pc' = "sel_enter"
    /\ UNCHANGED <<harness, raised, selVars, connVars, dumpVars, fetchVars, annVars>>

\* messages = load_messages(selected_file) has returned:
\* if not messages: return
AnnLoaded ==
    /\ pc = "ann_loaded"
    /\ pc' = IF loaded = <<>> THEN "done" ELSE "ann_key"
    /\ UNCHANGED <<harness, raised, selVars, connVars, dumpVars, fetchVars, annVars>>

\* if not openai_api_key: print and return
KeyMissing(key) == ~Truthy(key)

\* openai_api_key = os.getenv('OPENAI_API_KEY'); without it the run ends,
\* with it the client is built and the loop starts.
AnnKey ==
    /\ pc = "ann_key"
    /\ pc' = IF KeyMissing(openaiKey) THEN "done" ELSE "ann_loop"
    /\ UNCHANGED <<harness, raised, selVars, connVars, dumpVars, fetchVars, annVars>>

LoopExhaustedEarly(i, msgs) == i + 1 >= Len(msgs)

\* for idx, msg in enumerate(messages, 1): the iteration is over when every
\* message has been taken.
LoopExhausted(i, msgs) == i = Len(msgs)

\* The head of one pass of the for loop: a message without text is passed
\* over; for any other the completion call is issued.
AnnNext ==
    /\ pc = "ann_loop"
    /\ ~LoopExhausted(idx, loaded)
    /\ IF SkipsMessage(loaded[idx + 1])
       THEN /\ idx' = idx + 1
            /\ UNCHANGED <<pc, pending, calls>>
       ELSE /\ pc' = "ann_call"
            /\ pending' = pending + 1
            /\ calls' = calls + 1
            /\ UNCHANGED idx
    /\ UNCHANGED <<harness, raised, selVars, connVars, dumpVars, fetchVars,
                   openaiKey, processed, replies, outFile>>

\* The call returns or raises; process_message_with_openai returns the
\* summary either way and the loop appends the result.
AnnCallReturn ==
    /\ pc = "ann_call"
    /\ \E reply \in Replies :
          /\ processed' = Append(processed, [id |-> loaded[idx + 1].id,
                                             summary |-> Summary(reply)])
          /\ replies' = Append(replies, reply)
    /\ pending' = pending - 1
    /\ idx' = idx + 1
    /\ pc' = "ann_loop"
    /\ UNCHANGED <<harness, raised, selVars, connVars, dumpVars, fetchVars,
                   openaiKey, calls, outFile>>

\* The results as json.dump writes them.
WriteResults(results) ==
    [i \in 1..Len(results) |->
        [id |-> IntToStr(results[i].id), summary |-> JsonString(results[i].summary)]]

\* A result file an earlier run left in the outputs folder.
OldResults == Document(WriteResults(<<[id |-> 7, summary |-> <<"o", "l", "d">>]>>))

\* After the loop: OUTPUTS_DIR.mkdir, open(output_file, 'w'), json.dump, none
\* of them inside a try. A failing mkdir or open leaves the file as it was,
\* a json.dump that breaks off leaves it truncated, and the exception
\* leaves main.
AnnWrite ==
    /\ pc = "ann_loop"
    /\ LoopExhausted(idx, loaded)
    /\ \/ /\ outFile' = Document(WriteResults(processed))
          /\ UNCHANGED raised
       \/ /\ outFile' = Truncated
          /\ raised' = "OSError"
       \/ /\ raised' = "OSError"
          /\ UNCHANGED outFile
    /\ pc' = "done"
    /\ UNCHANGED <<harness, selVars, connVars, dumpVars, fetchVars,
                   openaiKey, idx, processed, pending, calls, replies>>

(***************************************************************************)
(* The specifications: each entry point run on its own.                    *)
(***************************************************************************)
\* The connector's variables before any connector function has run.
ConnIdle ==
    /\ dialogs = <<>>
    /\ conversation = <<>>
    /\ limit = DefaultLimit
    /\ cursor = 0
    /\ channels = <<>>
    /\ messages = <<>>
    /\ failed = FALSE
    /\ ret = <<>>

\* The dump variables before the writer or the reader has run.
DumpIdle ==
    /\ dumpInput = <<>>
    /\ fs = NoFile
    /\ saveOutcome = "not_called"
    /\ loaded = <<>>

\* The fetch workflow's variables outside a fetch run.
FetchIdle ==
    /\ apiId = None /\ apiHash = None
    /\ client = "None"
    /\ connOpen = FALSE /\ connections = 0 /\ disconnects = 0
    /\ authorized = FALSE /\ prompts = 0 /\ reported = FALSE

\* The annotation workflow's variables outside an annotation run.
AnnIdle ==
    /\ openaiKey = None
    /\ idx = 0 /\ processed = <<>>
    /\ pending = 0 /\ calls = 0 /\ replies = <<>>
    /\ outFile = NoFile

\* A selector called on a list.
InitSelect ==
    /\ harness = "select"
    /\ ConnIdle
    /\ DumpIdle
    /\ FetchIdle
    /\ AnnIdle
    /\ pc = "sel_enter"
    /\ raised = "none"
    /\ selector \in {"channel", "file"}
    /\ \E n \in 0..MaxItems : items = MakeItems(n)
    /\ typed = <<>>
    /\ selected = NotYet

NextSelect == SelectEnter \/ SelectInput

SpecSelect == InitSelect /\ [][NextSelect]_vars

\* The two connector functions, each called on its own.
InitConnector ==
    /\ raised = "none"
    /\ selector = "channel" /\ items = <<>> /\ typed = <<>> /\ selected = NotYet
    /\ cursor = 0 /\ channels = <<>> /\ messages = <<>>
    /\ failed = FALSE /\ ret = <<>>
    /\ DumpIdle
    /\ FetchIdle
    /\ AnnIdle
    /\ \/ /\ harness = "channels"
          /\ pc = "ch_enter"
          /\ dialogs \in DialogLists
          /\ conversation = <<>>
          /\ limit = DefaultLimit
       \/ /\ harness = "download"
          /\ pc = "dl_enter"
          /\ dialogs = <<>>
          /\ conversation \in Conversations
          /\ limit \in 1..MaxLimit

NextConnector ==
    \/ ChannelsEnter \/ ChannelsNext \/ ChannelsFail \/ ChannelsReturn
    \/ DownloadEnter \/ DownloadNext \/ DownloadFail \/ DownloadReturn

SpecConnector == InitConnector /\ [][NextConnector]_vars

\* save_messages(M, path) followed by load_messages(path).
InitDump ==
    /\ harness = "dump"
    /\ pc = "save"
    /\ raised = "none"
    /\ selector = "channel" /\ items = <<>> /\ typed = <<>> /\ selected = NotYet
    /\ ConnIdle
    /\ dumpInput \in DumpInputs
    /\ fs \in {NoFile, OldDump}
    /\ saveOutcome = "not_called"
    /\ loaded = <<>>
    /\ FetchIdle
    /\ AnnIdle

NextDump == SaveMessages \/ LoadMessages

SpecDump == InitDump /\ [][NextDump]_vars

\* The entities and message bodies the workflow runs meet.
MainEntities ==
    { [class |-> "Channel", participants_count |-> <<"5">>],
      [class |-> "User", participants_count |-> Absent] }

MainBodies ==
    { [text |-> <<>>, sender |-> None],
      [text |-> <<"h", "i">>, sender |-> <<"A", "n", "n">>] }

\* A run of tg_client.main.
InitFetch ==
    /\ harness = "fetch"
    /\ pc = "main_start"
    /\ raised = "none"
    /\ selector = "channel" /\ items = <<>> /\ typed = <<>> /\ selected = NotYet
    /\ dialogs \in { d \in DialogLists : \A i \in 1..Len(d) : d[i].entity \in MainEntities }
    /\ conversation \in { c \in Conversations :
                             \A i \in 1..Len(c) :
                                [text |-> c[i].text, sender |-> c[i].sender] \in MainBodies }
    /\ limit = DefaultLimit
    /\ cursor = 0 /\ channels = <<>> /\ messages = <<>>
    /\ failed = FALSE /\ ret = <<>>
    /\ dumpInput = <<>>
    /\ fs \in {NoFile, OldDump}
    /\ saveOutcome = "not_called"
    /\ loaded = <<>>
    /\ apiId \in {None, <<>>, <<"1", "2">>, <<"x">>}
    /\ apiHash \in {None, <<>>, <<"h">>}
    /\ client = "None"
    /\ connOpen = FALSE /\ connections = 0 /\ disconnects = 0
    /\ authorized = FALSE /\ prompts = 0 /\ reported = FALSE
    /\ AnnIdle

NextFetch ==
    \/ MainStart \/ ConnectNew \/ ConnectOpen \/ ConnectCheckAuthorized
    \/ ConnectSendCode \/ ConnectSignIn \/ ConnectPassword
    \/ ChannelsEnter \/ ChannelsNext \/ ChannelsFail \/ ChannelsReturn
    \/ MainChannels \/ SelectEnter \/ SelectInput \/ MainSelected
    \/ DownloadEnter \/ DownloadNext \/ DownloadFail \/ DownloadReturn
    \/ MainMessages \/ SaveMessages \/ MainReport \/ MainFinally

SpecFetch == InitFetch /\ [][NextFetch]_vars

\* The i-th message of a dump the annotation run reads, as JSON: with a text,
\* with an empty or null text, or with no text key at all.
AnnJsonMessages(i) ==
    { [id |-> IntToStr(i), text |-> JsonStrOrNull(t)] :
        t \in {<<"h", "i">>, <<SP>>, <<>>, None} }
    \cup { [id |-> IntToStr(i)] }

AnnJsonLists ==
    UNION { { f \in [1..n -> UNION { AnnJsonMessages(i) : i \in 1..n }] :
                \A i \in 1..n : f[i] \in AnnJsonMessages(i) } :
            n \in 0..MaxAnnMsgs }

\* What the selected file may hold: a dump, a document without a messages
\* key, or malformed JSON.
AnnFiles ==
    { Document([messages |-> ms]) : ms \in AnnJsonLists }
    \cup { Document([name |-> JsonString(ExportName)]), Truncated }

\* A run of process_to_kb.main.
InitAnnotate ==
    /\ harness = "annotate"
    /\ pc = "ann_start"
    /\ raised = "none"
    /\ selector = "file"
    /\ \E n \in 0..MaxItems : items = MakeItems(n)
    /\ typed = <<>> /\ selected = NotYet
    /\ ConnIdle
    /\ dumpInput = <<>>
    /\ fs \in AnnFiles
    /\ saveOutcome = "not_called"
    /\ loaded = <<>>
    /\ FetchIdle
    /\ openaiKey \in {None, <<>>, <<"s", "k">>}
    /\ idx = 0 /\ processed = <<>>
    /\ pending = 0 /\ calls = 0 /\ replies = <<>>
    /\ outFile \in {NoFile, OldResults}

NextAnnotate ==
    \/ AnnStart \/ SelectEnter \/ SelectInput \/ LoadMessages
    \/ AnnLoaded \/ AnnKey \/ AnnNext \/ AnnCallReturn \/ AnnWrite

SpecAnnotate == InitAnnotate /\ [][NextAnnotate]_vars

\* A run of either workflow.
Init == InitFetch \/ InitAnnotate

Next == NextFetch \/ NextAnnotate

Spec == Init /\ [][Next]_vars

(***************************************************************************)
(* Properties of the selectors.                                            *)
(***************************************************************************)
\* A line names an entry of a list of n items: it is an integer k, 1 <= k <= n.
InRange(line, n) == IsIntLiteral(line) /\ ParseInt(line) \in 1..n

AbcLine == <<"a", "b", "c">>
NinetyNineLine == <<"9", "9">>
TwoLine == <<"2">>
Scenario == <<AbcLine, NinetyNineLine, TwoLine>>

\* C9: for a non-empty list of n items, select_channel and select_file reject
\* every line that is non-numeric or outside 1..n without returning or
\* raising, return exactly when the first line k with 1 <= k <= n is read,
\* return the k-th item of the list (index k-1), and leave the list as it was.
C9_SelectFirstValid ==
    (harness = "select" /\ items # <<>> /\ pc # "sel_enter") =>
        /\ raised = "none"
        /\ pc \in {"sel_input", "done"}
        /\ \A i \in 1..(Len(typed) - 1) : ~InRange(typed[i], Len(items))
        /\ pc = "done" <=> (typed # <<>> /\ InRange(typed[Len(typed)], Len(items)))
        /\ pc = "sel_input" => selected = NotYet
        /\ pc = "done" => selected = ItemAt(ParseInt(typed[Len(typed)]))
        /\ items = MakeItems(Len(items))

\* C9 witness: two lines were rejected (one non-numeric, one out of range) and
\* the third, in range, made select_channel return.
C9_Witness ==
    /\ harness = "select" /\ selector = "channel" /\ Len(items) = 3
    /\ Len(typed) = 3 /\ ~IsIntLiteral(typed[1])
    /\ IsIntLiteral(typed[2]) /\ ParseInt(typed[2]) > 3
    /\ pc = "done" /\ selected = ItemAt(3)

\* C10 as stated: after the lines "abc", "99", "2" against a 3-item list the
\* selector has rejected the first two and returned the third item of the list.
C10_ReturnsThirdItem ==
    (harness = "select" /\ Len(items) = 3 /\ typed = Scenario) =>
        (pc = "done" /\ selected = items[3])

\* C10 as amended: after "abc" and after "abc", "99" the selector is still
\* prompting, and after "abc", "99", "2" it has returned the second item of the
\* list, the one the third line selects.
C10_ReturnsSecondItem ==
    (harness = "select" /\ Len(items) = 3) =>
        /\ typed = <<AbcLine>> => (pc = "sel_input" /\ selected = NotYet)
        /\ typed = <<AbcLine, NinetyNineLine>> => (pc = "sel_input" /\ selected = NotYet)
        /\ typed = Scenario => (pc = "done" /\ selected = items[2])

\* C10 witness: the scenario has been played to its end by select_file.
C10_Witness ==
    /\ harness = "select" /\ selector = "file" /\ Len(items) = 3
    /\ typed = Scenario /\ pc = "done"

(***************************************************************************)
(* Properties of the source connector.                                     *)
(***************************************************************************)
HasText(msg) == msg.text \notin {None, <<>>}
TextBearing(conv) == SelectSeq(conv, HasText)
Ids(list) == [i \in 1..Len(list) |-> list[i].id]
TextsOf(list) == [i \in 1..Len(list) |-> list[i].text]
Prefix(list, n) == SubSeq(list, 1, Min(n, Len(list)))
DownloadReturned == harness = "download" /\ pc = "done" /\ ~failed

\* C1 as stated: with N text-bearing messages in the conversation and limit L,
\* a download that no failure interrupts returns exactly min(N, L) messages,
\* each with non-empty text, in the source's newest-first order.
C1_ReturnsMinOfNAndL ==
    DownloadReturned =>
        /\ Len(ret) = Min(Len(TextBearing(conversation)), limit)
        /\ \A i \in 1..Len(ret) : ret[i].text \notin {None, <<>>}
        /\ Ids(ret) = Ids(Prefix(TextBearing(conversation), limit))

\* C1 as amended: the limit counts the messages the source yields, with or
\* without text. The download returns the text-bearing messages among the
\* newest min(T, L) messages of the conversation (T its total number of
\* messages), in the source's newest-first order and each with its non-empty
\* text: at most min(N, L) messages, and exactly min(N, L) when none of those
\* newest min(T, L) messages lacks text.
C1_ReturnsTextOfNewestL ==
    DownloadReturned =>
        LET yielded == Prefix(conversation, limit)
            N == Len(TextBearing(conversation))
        IN  /\ Ids(ret) = Ids(TextBearing(yielded))
            /\ TextsOf(ret) = TextsOf(TextBearing(yielded))
            /\ \A i \in 1..Len(ret) : ret[i].text \notin {None, <<>>}
            /\ \A i \in 1..(Len(ret) - 1) : ret[i].id > ret[i + 1].id
            /\ Len(ret) <= Min(N, limit)
            /\ (\A i \in 1..Len(yielded) : HasText(yielded[i])) => Len(ret) = Min(N, limit)

\* C1 witness: a textless message among the newest L and a text-bearing one
\* beyond them, so that fewer than min(N, L) messages were returned.
C1_Witness ==
    /\ DownloadReturned
    /\ limit < Len(conversation)
    /\ Len(ret) >= 1
    /\ Len(ret) < Min(Len(TextBearing(conversation)), limit)

\* C5: a remote-call failure inside get_user_channels or download_messages,
\* wherever in the iteration it strikes, makes the function return the empty
\* list: nothing is raised to the caller and no partial result is returned.
\* A run without a failure returns what the whole iteration collected.
C5_FailureGivesEmptyList ==
    (harness \in {"channels", "download"}) =>
        /\ raised = "none"
        /\ failed => (pc = "done" /\ ret = <<>>)
        /\ (pc = "done" /\ ~failed /\ harness = "channels") =>
              (ret = channels /\ cursor = Len(dialogs))
        /\ (pc = "done" /\ ~failed /\ harness = "download") =>
              (ret = messages /\ cursor = Min(limit, Len(conversation)))

\* C5 witness: download_messages failed after it had collected two messages.
C5_Witness ==
    /\ harness = "download" /\ pc = "done" /\ failed
    /\ Len(messages) = 2 /\ cursor < Len(conversation)
    /\ ret = <<>>

(***************************************************************************)
(* Properties of the dump writer and reader.                               *)
(***************************************************************************)
\* C6: every dump document save_messages writes has message_count equal to
\* the length of its messages array, for every message list, the empty one
\* included.
C6_CountIsLength ==
    (saveOutcome = "written") =>
        /\ fs.kind = "document"
        /\ ReadInt(fs.json.message_count) = Len(fs.json.messages)
        /\ Len(fs.json.messages) = Len(dumpInput)

\* C6 witness: save_messages has written the dump of the empty list.
C6_Witness ==
    /\ harness = "dump" /\ saveOutcome = "written" /\ dumpInput = <<>>
    /\ fs.kind = "document" /\ fs.json.message_count = <<"0">>

\* C7: when save_messages(M, path) has written its dump, load_messages(path)
\* raises nothing and returns a list equal to M in length, order and every
\* field value.
C7_RoundTrip ==
    (harness = "dump" /\ pc = "done" /\ saveOutcome = "written") =>
        /\ raised = "none"
        /\ Len(loaded) = Len(dumpInput)
        /\ \A i \in 1..Len(dumpInput) :
              /\ loaded[i].id = dumpInput[i].id
              /\ loaded[i].type = dumpInput[i].type
              /\ loaded[i].date = dumpInput[i].date
              /\ loaded[i].from = dumpInput[i].from
              /\ loaded[i].text = dumpInput[i].text
              /\ loaded[i].media_type = dumpInput[i].media_type
              /\ loaded[i].media_url = dumpInput[i].media_url
        /\ loaded = dumpInput

\* C7 witness: two messages were written over an older dump and read back,
\* the first with a backslash followed by n in its text, the second with a
\* quote.
C7_Witness ==
    /\ harness = "dump" /\ pc = "done" /\ saveOutcome = "written"
    /\ Len(dumpInput) = 2
    /\ dumpInput[1].text = <<BSL, "n">>
    /\ dumpInput[2].text = <<QUOTE>>
    /\ Len(loaded) = 2

(***************************************************************************)
(* Properties of the fetch workflow.                                       *)
(***************************************************************************)
\* C2 as stated: every run of tg_client.main that opened a connection has
\* called disconnect by the time it ends, whatever the outcome, and nothing
\* escapes main.
C2_ConnectionReleased ==
    (harness = "fetch" /\ pc = "done" /\ connections > 0) =>
        (disconnects > 0 /\ raised = "none")

\* C8: with TELEGRAM_API_ID or TELEGRAM_API_HASH unset the fetch run ends
\* before any connection is attempted and before any dump is written; with
\* OPENAI_API_KEY unset the annotation run ends before any completion call is
\* issued and before any result file is written.
C8_MissingCredentialStopsRun ==
    /\ (harness = "fetch" /\ (apiId = None \/ apiHash = None)) =>
          /\ pc \in {"main_start", "main_finally", "done"}
          /\ connections = 0 /\ ~connOpen /\ client = "None"
          /\ saveOutcome = "not_called" /\ fs \in {NoFile, OldDump}
          /\ ~reported
    /\ (harness = "annotate" /\ openaiKey = None) =>
          /\ pc \in {"ann_start", "sel_enter", "sel_input", "load", "ann_loaded",
                      "ann_key", "done"}
          /\ calls = 0 /\ pending = 0 /\ processed = <<>>
          /\ outFile \in {NoFile, OldResults}

\* C8 witness: an annotation run loaded two messages, found no key and ended.
C8_Witness ==
    /\ harness = "annotate" /\ openaiKey = None
    /\ Len(loaded) = 2 /\ pc = "done" /\ outFile = OldResults

(***************************************************************************)
(* Properties of the annotation workflow.                                  *)
(***************************************************************************)
MsgHasText(msg) == "text" \in DOMAIN msg /\ msg.text \notin {None, <<>>}
Taken == SubSeq(loaded, 1, idx)
NoEdgeSpace(s) == s = <<>> \/ (~IsSpace(s[1]) /\ ~IsSpace(s[Len(s)]))
AllSpace(s) == \A i \in 1..Len(s) : IsSpace(s[i])

\* out is text with the whitespace at its two ends, and nothing else, removed.
Trimmed(text, out) ==
    /\ NoEdgeSpace(out)
    /\ \E a \in 0..Len(text) :
          /\ a + Len(out) <= Len(text)
          /\ SubSeq(text, a + 1, a + Len(out)) = out
          /\ AllSpace(SubSeq(text, 1, a))
          /\ AllSpace(SubSeq(text, a + Len(out) + 1, Len(text)))

\* The loop of process_to_kb.main has run to its end.
LoopFinished ==
    /\ harness = "annotate" /\ pc = "done"
    /\ loaded # <<>> /\ openaiKey \notin {None, <<>>}

SkipLiteral == <<"S", "K", "I", "P">>
MarkerLiteral == <<"[", "O", "p", "e", "n", "A", "I", " ", "e", "r", "r", "o", "r", ":">>

\* C3: the batch loop produces one result per message with non-empty text and
\* none for a message whose text is empty or missing, in input order, each
\* with the id of its message; the summary is the service's response with
\* only its surrounding whitespace removed, SKIP included.
C3_OneResultPerTextMessage ==
    (harness = "annotate") =>
        /\ Ids(processed) = Ids(SelectSeq(Taken, MsgHasText))
        /\ Len(replies) = Len(processed)
        /\ \A i \in 1..Len(processed) :
              replies[i].kind = "content" =>
                 /\ Trimmed(replies[i].text, processed[i].summary)
                 /\ replies[i].text = SkipLiteral => processed[i].summary = SkipLiteral
        /\ LoopFinished => idx = Len(loaded)

\* C3 witness: of two messages the first had no text and the second did; the
\* service answered SKIP wrapped in whitespace; one result, for the second.
C3_Witness ==
    /\ LoopFinished /\ Len(loaded) = 2
    /\ ~MsgHasText(loaded[1]) /\ MsgHasText(loaded[2])
    /\ Len(processed) = 1 /\ processed[1].id = 2
    /\ replies[1].text # SkipLiteral /\ processed[1].summary = SkipLiteral

\* C4: when the completion call for a message fails,
\* process_message_with_openai raises nothing and returns a string starting
\* with "[OpenAI error:", that string is the message's summary, and the loop
\* goes on: a finished loop holds one result per message with text, whatever
\* failed.
C4_CallFailureIsInBand ==
    (harness = "annotate") =>
        /\ pc \in {"ann_loop", "ann_call"} => raised = "none"
        /\ \A i \in 1..Len(processed) :
              (i <= Len(replies) /\ replies[i].kind = "raise") =>
                 /\ Len(processed[i].summary) >= Len(MarkerLiteral)
                 /\ SubSeq(processed[i].summary, 1, Len(MarkerLiteral)) = MarkerLiteral
        /\ (pc = "ann_loop" /\ replies # <<>> /\ idx < Len(loaded)) => ENABLED AnnNext
        /\ LoopFinished => Len(processed) = Len(SelectSeq(loaded, MsgHasText))

\* C4 witness: the call for the first of two messages failed and the second
\* message was still processed.
C4_Witness ==
    /\ LoopFinished /\ Len(loaded) = 2 /\ Len(processed) = 2
    /\ replies[1].kind = "raise" /\ replies[2].kind = "content"

\* The number of messages with text among the first k of the loaded list.
TextCount(k) == Len(SelectSeq(SubSeq(loaded, 1, k), MsgHasText))

\* C11: the annotation phase is strictly sequential. At every point of a run
\* at most one completion call is outstanding, and one is outstanding exactly
\* while the loop waits inside process_message_with_openai; the call for a
\* message is issued only when the call for every earlier message with text
\* has returned, with an answer or a caught failure; and the result file is
\* touched only after the last call has returned.
C11_StrictlySequential ==
    /\ [](harness = "annotate" =>
            /\ pending \in {0, 1}
            /\ pending = 1 <=> pc = "ann_call"
            /\ calls = Len(replies) + pending
            /\ calls = TextCount(idx) + pending
            /\ pending = 1 => (idx < Len(loaded) /\ MsgHasText(loaded[idx + 1])))
    /\ [][(harness = "annotate" /\ outFile' # outFile) =>
            /\ pending = 0
            /\ idx = Len(loaded)
            /\ Len(replies) = calls
            /\ calls = TextCount(Len(loaded))]_vars

\* C11 witness: the call for the second of two messages with text is
\* outstanding, the call for the first has returned with a failure, and the
\* result file is still the one of an earlier run.
C11_Witness ==
    /\ harness = "annotate" /\ pc = "ann_call"
    /\ Len(loaded) = 2 /\ idx = 1
    /\ calls = 2 /\ pending = 1
    /\ Len(replies) = 1 /\ replies[1].kind = "raise"
    /\ outFile = OldResults

(***************************************************************************)
(* Properties of connect_telethon and of the end of the fetch workflow.    *)
(***************************************************************************)
\* The places inside connect_telethon.
ConnectPcs == {"ct_new", "ct_connect", "ct_is_authorized", "ct_send_code",
               "ct_sign_in", "ct_password"}

\* The step is connect_telethon's return of the client, by one of its three
\* routes: the cached session was found authorized and no prompt had been
\* issued; the code sign-in succeeded after the phone and code prompts; the
\* password sign-in succeeded after the second factor was demanded.
ReturnsAuthorizedClient ==
    /\ client' = "client" /\ authorized'
    /\ \/ pc = "ct_is_authorized" /\ prompts' = 0
       \/ pc = "ct_sign_in" /\ prompts' = 2
       \/ pc = "ct_password" /\ prompts' = 3
    /\ pc' = "ch_enter"

\* The step is a return of None from inside connect_telethon's try.
ReturnsNone ==
    /\ pc \in ConnectPcs \ {"ct_new"}
    /\ client' = "None" /\ ~authorized'
    /\ pc' = "main_finally"

\* The step is int(api_id) raising ValueError out of connect_telethon, before
\* the try and before any connection.
RaisesValueError ==
    /\ pc = "ct_new" /\ ~IsIntLiteral(apiId)
    /\ connections = 0 /\ prompts = 0
    /\ client' = "None" /\ ~authorized'
    /\ pc' = "main_finally"

\* The step leaves connect_telethon.
LeavesConnect == harness = "fetch" /\ pc \in ConnectPcs /\ pc' \notin ConnectPcs

\* main never holds a client of an unauthorized session.
NoUnauthorizedClient ==
    harness = "fetch" =>
        /\ client = "client" => (authorized /\ prompts \in {0, 2, 3})
        /\ pc \in ConnectPcs => (client = "None" /\ ~authorized)
        /\ ~authorized => client = "None"

\* C12 as stated: connect_telethon returns a client only when the session is
\* authorized: without any prompt when the cached session is authorized,
\* otherwise only after the code sign-in or, when a second factor is
\* demanded, the password sign-in succeeded; an invalid code or any other
\* failure yields None, never an unauthorized client.
C12_AnyFailureYieldsNone ==
    /\ []NoUnauthorizedClient
    /\ [][LeavesConnect => (ReturnsAuthorizedClient \/ ReturnsNone)]_vars

\* C12 amended: as above, except that a failure yields None only once the
\* client object exists: an api id that is not an integer literal makes
\* connect_telethon raise ValueError before anything is connected. In no case
\* does the caller get an unauthorized client.
C12_ClientOnlyWhenAuthorized ==
    /\ []NoUnauthorizedClient
    /\ [][LeavesConnect =>
            (ReturnsAuthorizedClient \/ ReturnsNone \/ RaisesValueError)]_vars

\* C12 witness: the code sign-in demanded the second factor, the password
\* sign-in succeeded after three prompts and main went on with the client.
C12_Witness ==
    /\ harness = "fetch" /\ pc = "ch_enter"
    /\ client = "client" /\ authorized /\ prompts = 3

\* C13 as stated: the fetch workflow reports success only in runs in which
\* the dump file was actually written; when the write inside save_messages
\* fails, no success is reported.
C13_SuccessOnlyWhenWritten ==
    (harness = "fetch" /\ reported) => saveOutcome = "written"

\* save_messages has been called in this run.
SaveReached == pc = "save" \/ saveOutcome # "not_called"

\* The selector returned one of the conversations it was given.
ConversationSelected == \E i \in 1..Len(items) : selected = items[i]

\* C14: in the fetch workflow save_messages is reached only after the
\* connection succeeded, the conversation list was non-empty, a conversation
\* was selected and the download returned at least one message, and it is
\* called with what the download returned; the dump file changes, and an
\* outcome of save_messages is recorded, only in a step of save_messages, so
\* in every other run the file is never opened and an existing dump stays as
\* it was.
C14_SaveOnlyAfterFullFetch ==
    /\ [](harness = "fetch" =>
            /\ SaveReached =>
                  /\ client = "client" /\ authorized /\ connections = 1
                  /\ ~failed
                  /\ channels # <<>> /\ items = channels
                  /\ ConversationSelected
                  /\ ret # <<>> /\ ret = messages
            /\ (pc = "done" /\ (client = "None" \/ items = <<>> \/ ret = <<>>
                                \/ ~ConversationSelected \/ failed)) =>
                  (saveOutcome = "not_called" /\ fs \in {NoFile, OldDump}))
    /\ [][(harness = "fetch" /\ (fs' # fs \/ saveOutcome' # saveOutcome)) =>
            pc = "save"]_vars

\* C14 witness: the connection succeeded and a conversation was selected,
\* the download failed, and the run ended with the dump of an earlier run
\* still in place and save_messages never called.
C14_Witness ==
    /\ harness = "fetch" /\ pc = "done"
    /\ client = "client" /\ ConversationSelected
    /\ failed /\ ret = <<>>
    /\ saveOutcome = "not_called" /\ fs = OldDump

====
